---- MODULE Spec2Model ----
(***************************************************************************)
(* Model of lhotse/recipes/uniphore_dev.py: the Uniphore dev-set recipe.   *)
(*                                                                         *)
(* A string is a sequence of characters, each character a one-character    *)
(* TLA+ string (the em dash, which is not ASCII, is the token "U+2014").   *)
(* A TSV line is the sequence of its tab-separated fields.  A number of    *)
(* seconds is an integer count of hundredths of a second, so that the      *)
(* fractional seconds of the corpus ("07.25") are exact.                   *)
(***************************************************************************)
EXTENDS Integers, Sequences, FiniteSets, TLC

(***************************************************************************)
(* Bounds of the model.                                                    *)
(***************************************************************************)
MaxFiles == 2      \* audio files of one subset
MaxRows == 2       \* non-header rows of one combined.tsv
MaxTextLen == 3    \* length of the enumerated texts given to normalize

(***************************************************************************)
(* Generic helpers on sequences.                                           *)
(***************************************************************************)
Range(s) == {s[n] : n \in 1..Len(s)}

SeqsUpTo(S, n) == UNION {[1..m -> S] : m \in 0..n}

RECURSIVE IndexOf(_, _, _)
\* Position of the first x in s at or after position n; 0 when there is none.
IndexOf(s, x, n) ==
    IF n > Len(s) THEN 0
    ELSE IF s[n] = x THEN n
    ELSE IndexOf(s, x, n + 1)

RECURSIVE Split(_, _)
\* str.split(sep) for a one-character separator.
Split(s, sep) ==
    LET p == IndexOf(s, sep, 1) IN
    IF p = 0 THEN <<s>>
    ELSE <<SubSeq(s, 1, p - 1)>> \o Split(SubSeq(s, p + 1, Len(s)), sep)

Digits == <<"0", "1", "2", "3", "4", "5", "6", "7", "8", "9">>

DigitValue(c) == IndexOf(Digits, c, 1) - 1

IsDigits(s) == \A n \in 1..Len(s) : s[n] \in Range(Digits)

RECURSIVE DecimalValue(_)
DecimalValue(s) ==
    IF s = <<>> THEN 0
    ELSE 10 * DecimalValue(SubSeq(s, 1, Len(s) - 1)) + DigitValue(s[Len(s)])

Ok(v) == [ok |-> TRUE, val |-> v]
Raise(e) == [ok |-> FALSE, err |-> e]

\* int(s) on the strings of the corpus: a non-empty run of decimal digits.
ParseInt(s) ==
    IF s # <<>> /\ IsDigits(s) THEN Ok(DecimalValue(s)) ELSE Raise("ValueError")

\* float(s), in hundredths: digits, optionally a point and more digits.  The
\* inputs of the model carry at most two fractional digits.
ParseFloat(s) ==
    LET parts == Split(s, ".")
        whole == parts[1]
        frac == IF Len(parts) = 2 THEN parts[2] ELSE <<>>
    IN  IF \/ Len(parts) > 2
           \/ ~IsDigits(whole) \/ ~IsDigits(frac)
           \/ (whole = <<>> /\ frac = <<>>)
        THEN Raise("ValueError")
        ELSE Ok(100 * DecimalValue(whole)
                + (CASE Len(frac) = 0 -> 0
                     [] Len(frac) = 1 -> 10 * DecimalValue(frac)
                     [] OTHER -> DecimalValue(SubSeq(frac, 1, 2))))

(***************************************************************************)
(* normalize (lines 51-56).                                                *)
(***************************************************************************)
\* string.punctuation: the 32 ASCII punctuation characters (the grave accent
\* is written as the token "U+0060").
string_punctuation ==
    {"!", "\"", "#", "$", "%", "&", "'", "(", ")", "*", "+", ",", "-", ".",
     "/", ":", ";", "<", "=", ">", "?", "@", "[", "\\", "]", "^", "_", "U+0060",
     "{", "|", "}", "~"}

UpperCase ==
    <<"A", "B", "C", "D", "E", "F", "G", "H", "I", "J", "K", "L", "M",
      "N", "O", "P", "Q", "R", "S", "T", "U", "V", "W", "X", "Y", "Z">>
LowerCase ==
    <<"a", "b", "c", "d", "e", "f", "g", "h", "i", "j", "k", "l", "m",
      "n", "o", "p", "q", "r", "s", "t", "u", "v", "w", "x", "y", "z">>

\* str.lower() on one character of the model's alphabet.
lower(c) ==
    LET p == IndexOf(UpperCase, c, 1) IN IF p = 0 THEN c ELSE LowerCase[p]

RECURSIVE translate_delete(_, _)
\* text.translate(str.maketrans("", "", chars)): delete the characters of chars.
translate_delete(text, chars) ==
    IF text = <<>> THEN <<>>
    ELSE (IF text[1] \in chars THEN <<>> ELSE <<text[1]>>)
         \o translate_delete(Tail(text), chars)

\* A bug: the apostrophe is missing from the deleted characters.
normalize_mut(text) ==
    LET stripped == translate_delete(text, string_punctuation \ {"'"})
    IN  [n \in 1..Len(stripped) |-> lower(stripped[n])]

normalize(text) ==
    LET stripped == translate_delete(text, string_punctuation)
    IN  [n \in 1..Len(stripped) |-> lower(stripped[n])]

(***************************************************************************)
(* convert_time and convert_duration (lines 70-85).                        *)
(***************************************************************************)
\* datetime.timedelta(hours, minutes, seconds).total_seconds(), in hundredths.
total_seconds(hours, minutes, seconds) ==
    100 * (3600 * hours + 60 * minutes) + seconds

convert_time(time) ==
    LET fields == Split(time, ":") IN
    IF Len(fields) < 1 THEN Raise("IndexError")
    ELSE IF ~ParseInt(fields[1]).ok THEN Raise("ValueError")
    ELSE IF Len(fields) < 2 THEN Raise("IndexError")
    ELSE IF ~ParseInt(fields[2]).ok THEN Raise("ValueError")
    ELSE IF Len(fields) < 3 THEN Raise("IndexError")
    ELSE IF ~ParseFloat(fields[3]).ok THEN Raise("ValueError")
    ELSE Ok(total_seconds(ParseInt(fields[1]).val, ParseInt(fields[2]).val,
                          ParseFloat(fields[3]).val))

\* A bug: the duration is converted like a time.
convert_duration_mut(time) == convert_time(time)

convert_duration(time) ==
    LET fields == Split(time, ":") IN
    IF Len(fields) < 3 THEN Raise("IndexError")
    ELSE IF ~ParseFloat(fields[3]).ok THEN Raise("ValueError")
    ELSE Ok(total_seconds(0, 0, ParseFloat(fields[3]).val))

(***************************************************************************)
(* The subsets and the column layouts (lines 21-48, 138-181).              *)
(***************************************************************************)
DEV_SUBSETS ==
    <<
      <<"A", "F", "I", "_", "e", "n", "-", "u", "s", "_", "m", "u", "l",
        "t", "i", "-", "s", "p", "o", "n", "t", "a", "n", "e", "o", "u",
        "s", "_", "h", "e", "a", "l", "t", "h", "c", "a", "r", "e", "-",
        "r", "e", "t", "a", "i", "l", "_", "v", "0", "1", "_", "D", "a",
        "t", "a", "s", "e", "t">>,
      <<"J", "P", "T", "_", "e", "n", "-", "u", "s", "_", "m", "u", "l",
        "t", "i", "-", "s", "p", "o", "n", "t", "a", "n", "e", "o", "u",
        "s", "_", "b", "a", "n", "k", "i", "n", "g", "_", "v", "0", "1",
        "_", "D", "a", "t", "a", "s", "e", "t", "_", "1", "_", "D", "a",
        "t", "a", "s", "e", "t">>,
      <<"J", "P", "T", "_", "e", "n", "-", "u", "s", "_", "m", "u", "l",
        "t", "i", "-", "s", "p", "o", "n", "t", "a", "n", "e", "o", "u",
        "s", "_", "i", "n", "s", "u", "r", "a", "n", "c", "e", "_", "v",
        "0", "1", "_", "D", "a", "t", "a", "s", "e", "t", "_", "1", "_",
        "D", "a", "t", "a", "s", "e", "t">>
    >>

\* An identifier of neither corpus family, for the layout resolution alone.
OTHER_SUBSET ==
    <<"X", "Y", "Z", "_", "e", "n", "-", "u", "s", "_", "m", "u", "l", "t",
      "i", "-", "s", "p", "o", "n", "t", "a", "n", "e", "o", "u", "s", "_",
      "t", "e", "l", "e", "c", "o", "m", "_", "v", "0", "1", "_", "D", "a",
      "t", "a", "s", "e", "t">>

startswith(s, prefix) ==
    Len(s) >= Len(prefix) /\ SubSeq(s, 1, Len(prefix)) = prefix

AFI == <<"A", "F", "I">>
JPT == <<"J", "P", "T">>

\* Module-level names the function reads but never assigns: globals.
TSV_TRANSCRIPTION_ID == 0
TSV_CHANNEL == 1

\* A bug: gender and age of both speakers in the order of the other branch.
LayoutA_mut ==
    [TSV_BEGIN_TIME |-> 2, TSV_END_TIME |-> 3, TSV_TRANSCRIPT |-> 4,
     TSV_DURATION |-> 5, TSV_RECORDING_ID |-> 6,
     TSV_LEFTCHANNELSPEAKERID |-> 15, TSV_LEFTCHANNELSPEAKERGENDER |-> 17,
     TSV_LEFTCHANNELSPEAKERAGE |-> 16,
     TSV_LEFTCHANNELSPEAKERLIVINGCOUNTRY |-> 18,
     TSV_LEFTCHANNELSPEAKERACCENT |-> 19, TSV_LEFTCHANNELROLE |-> 12,
     TSV_RIGHTCHANNELSPEAKERID |-> 20, TSV_RIGHTCHANNELSPEAKERGENDER |-> 22,
     TSV_RIGHTCHANNELSPEAKERAGE |-> 21,
     TSV_RIGHTCHANNELSPEAKERLIVINGCOUNTRY |-> 23,
     TSV_RIGHTCHANNELSPEAKERACCENT |-> 24, TSV_RIGHTCHANNELROLE |-> 13,
     tsv_offset |-> 0]

\* The names bound by the branch taken for an "AFI" subset (lines 139-158).
LayoutA ==
    [TSV_BEGIN_TIME |-> 2, TSV_END_TIME |-> 3, TSV_TRANSCRIPT |-> 4,
     TSV_DURATION |-> 5, TSV_RECORDING_ID |-> 6,
     TSV_LEFTCHANNELSPEAKERID |-> 15, TSV_LEFTCHANNELSPEAKERGENDER |-> 16,
     TSV_LEFTCHANNELSPEAKERAGE |-> 17,
     TSV_LEFTCHANNELSPEAKERLIVINGCOUNTRY |-> 18,
     TSV_LEFTCHANNELSPEAKERACCENT |-> 19, TSV_LEFTCHANNELROLE |-> 12,
     TSV_RIGHTCHANNELSPEAKERID |-> 20, TSV_RIGHTCHANNELSPEAKERGENDER |-> 21,
     TSV_RIGHTCHANNELSPEAKERAGE |-> 22,
     TSV_RIGHTCHANNELSPEAKERLIVINGCOUNTRY |-> 23,
     TSV_RIGHTCHANNELSPEAKERACCENT |-> 24, TSV_RIGHTCHANNELROLE |-> 13,
     tsv_offset |-> 0]

\* A bug: the else branch shifts every field of the "AFI" branch by one, so
\* the transcript is read at column 5 and the duration at column 6.
LayoutB_mut ==
    [TSV_BEGIN_TIME |-> 3, TSV_END_TIME |-> 4, TSV_TRANSCRIPT |-> 5,
     TSV_DURATION |-> 6, TSV_RECORDING_ID |-> 7,
     TSV_LEFTCHANNELSPEAKERID |-> 13, TSV_LEFTCHANNELNATIVE |-> 14,
     TSV_LEFTCHANNELROLE |-> 15, TSV_LEFTCHANNELSPEAKERAGE |-> 16,
     TSV_LEFTCHANNELSPEAKERGENDER |-> 17,
     TSV_LEFTCHANNELSPEAKERLIVINGCOUNTRY |-> 18,
     TSV_LEFTCHANNELSPEAKERACCENT |-> 19,
     TSV_RIGHTCHANNELSPEAKERID |-> 20, TSV_RIGHTCHANNELNATIVE |-> 21,
     TSV_RIGHTCHANNELROLE |-> 22, TSV_RIGHTCHANNELSPEAKERAGE |-> 23,
     TSV_RIGHTCHANNELSPEAKERGENDER |-> 24,
     TSV_RIGHTCHANNELSPEAKERLIVINGCOUNTRY |-> 25,
     TSV_RIGHTCHANNELSPEAKERACCENT |-> 26,
     tsv_offset |-> 1]

\* The names bound by the else branch (lines 160-181).
LayoutB ==
    [TSV_BEGIN_TIME |-> 3, TSV_END_TIME |-> 4, TSV_DURATION |-> 5,
     TSV_TRANSCRIPT |-> 6, TSV_RECORDING_ID |-> 7,
     TSV_LEFTCHANNELSPEAKERID |-> 13, TSV_LEFTCHANNELNATIVE |-> 14,
     TSV_LEFTCHANNELROLE |-> 15, TSV_LEFTCHANNELSPEAKERAGE |-> 16,
     TSV_LEFTCHANNELSPEAKERGENDER |-> 17,
     TSV_LEFTCHANNELSPEAKERLIVINGCOUNTRY |-> 18,
     TSV_LEFTCHANNELSPEAKERACCENT |-> 19,
     TSV_RIGHTCHANNELSPEAKERID |-> 20, TSV_RIGHTCHANNELNATIVE |-> 21,
     TSV_RIGHTCHANNELROLE |-> 22, TSV_RIGHTCHANNELSPEAKERAGE |-> 23,
     TSV_RIGHTCHANNELSPEAKERGENDER |-> 24,
     TSV_RIGHTCHANNELSPEAKERLIVINGCOUNTRY |-> 25,
     TSV_RIGHTCHANNELSPEAKERACCENT |-> 26,
     tsv_offset |-> 1]

\* A bug: the else branch binds only the names whose index differs from the
\* module-level default, so the others keep what an earlier subset bound.
AssignLayout_mut(locals, subset) ==
    IF startswith(subset, AFI) THEN LayoutA @@ locals
    ELSE [n \in {"TSV_BEGIN_TIME", "TSV_END_TIME", "TSV_TRANSCRIPT",
                 "TSV_RECORDING_ID", "tsv_offset"} |-> LayoutB[n]]
         @@ locals @@ LayoutB

\* A bug: the test is made on the other family's prefix.
AssignLayout_inverted(locals, subset) ==
    IF startswith(subset, JPT) THEN LayoutB @@ locals ELSE LayoutA @@ locals

\* The if/else of lines 138-181 as an update of the function's local names:
\* the names the branch binds are rebound, the others keep their binding.
AssignLayout(locals, subset) ==
    IF startswith(subset, AFI) THEN LayoutA @@ locals ELSE LayoutB @@ locals

\* No local name is bound before the first subset.
NoLocals == [n \in {} |-> 0]

(***************************************************************************)
(* Decoding one line (lines 183-226).                                      *)
(***************************************************************************)
\* line[k], Python's zero-based index.
Field(line, k) == line[k + 1]
InRange(line, k) == k < Len(line)

\* The six attribute names read for the channel (lines 194-207).
SpeakerNames(channel) ==
    IF channel = <<"1">>
    THEN [id |-> "TSV_LEFTCHANNELSPEAKERID",
          gender |-> "TSV_LEFTCHANNELSPEAKERGENDER",
          age |-> "TSV_LEFTCHANNELSPEAKERAGE",
          living_country |-> "TSV_LEFTCHANNELSPEAKERLIVINGCOUNTRY",
          accent |-> "TSV_LEFTCHANNELSPEAKERACCENT",
          role |-> "TSV_LEFTCHANNELROLE"]
    ELSE [id |-> "TSV_RIGHTCHANNELSPEAKERID",
          gender |-> "TSV_RIGHTCHANNELSPEAKERGENDER",
          age |-> "TSV_RIGHTCHANNELSPEAKERAGE",
          living_country |-> "TSV_RIGHTCHANNELSPEAKERLIVINGCOUNTRY",
          accent |-> "TSV_RIGHTCHANNELSPEAKERACCENT",
          role |-> "TSV_RIGHTCHANNELROLE"]

\* A bug: the channel is coerced instead of checked.
ChannelAccepted_mut(channel) == TRUE

\* The assert of lines 189-192.
ChannelAccepted(channel) == channel \in {<<"1">>, <<"2">>}

\* The body of the loop over the lines, with the local names in `locals`.
\* Gives Ok(the SupervisionSegment) or Raise(the exception).
DecodeLine(line, locals, normalize_text) ==
    IF ~InRange(line, locals.TSV_TRANSCRIPT) \/ ~InRange(line, TSV_CHANNEL)
    THEN Raise("IndexError")
    ELSE
    LET raw == Field(line, locals.TSV_TRANSCRIPT)
        text == IF normalize_text THEN normalize(raw) ELSE raw
        channel == Field(line, TSV_CHANNEL)
        names == SpeakerNames(channel)
        start == convert_time(Field(line, locals.TSV_BEGIN_TIME))
        duration == convert_duration(Field(line, locals.TSV_DURATION))
    IN  IF ~ChannelAccepted(channel) THEN Raise("AssertionError")
        ELSE IF \E a \in DOMAIN names : ~InRange(line, locals[names[a]])
        THEN Raise("IndexError")
        ELSE IF \/ ~InRange(line, TSV_TRANSCRIPTION_ID)
                \/ ~InRange(line, locals.TSV_RECORDING_ID)
                \/ ~InRange(line, locals.TSV_BEGIN_TIME)
        THEN Raise("IndexError")
        ELSE IF ~start.ok THEN start
        ELSE IF ~InRange(line, locals.TSV_DURATION) THEN Raise("IndexError")
        ELSE IF ~duration.ok THEN duration
        ELSE IF ~ParseInt(channel).ok THEN Raise("ValueError")
        ELSE Ok([id |-> Field(line, TSV_TRANSCRIPTION_ID),
                 recording_id |-> Field(line, locals.TSV_RECORDING_ID),
                 start |-> start.val,
                 duration |-> duration.val,
                 channel |-> ParseInt(channel).val - 1,
                 language |-> "en-us",
                 text |-> text,
                 speaker |-> Field(line, locals[names.id]),
                 gender |-> Field(line, locals[names.gender]),
                 custom |->
                    [accent |-> Field(line, locals[names.accent]),
                     role |-> Field(line, locals[names.role]),
                     living_country |->
                        Field(line, locals[names.living_country]),
                     age |-> Field(line, locals[names.age])]])

(***************************************************************************)
(* parse_tsv_file (lines 59-67).  A file is the sequence of its lines, a   *)
(* line the sequence of its tab-separated fields as they stand in the file.*)
(***************************************************************************)
RECURSIVE DropEmptyFront(_)
DropEmptyFront(fields) ==
    IF fields # <<>> /\ fields[1] = <<>> THEN DropEmptyFront(Tail(fields))
    ELSE fields

RECURSIVE DropEmptyBack(_)
DropEmptyBack(fields) ==
    IF fields # <<>> /\ fields[Len(fields)] = <<>>
    THEN DropEmptyBack(SubSeq(fields, 1, Len(fields) - 1))
    ELSE fields

\* line.strip().split("\t"): the tabs around empty fields at either end of
\* the line are white space and are stripped with them; what is left of an
\* all-empty line is one empty field.
strip_split(fields) ==
    LET kept == DropEmptyBack(DropEmptyFront(fields))
    IN  IF kept = <<>> THEN << <<>> >> ELSE kept

RECURSIVE SplitLines(_)
\* The loop over the lines of the file (lines 63-66).
SplitLines(lines) ==
    IF lines = <<>> THEN <<>>
    ELSE <<strip_split(Head(lines))>> \o SplitLines(Tail(lines))

\* A bug: the header line is not skipped.
parse_tsv_file_mut(file) == SplitLines(file)

parse_tsv_file(file) ==
    IF file = <<>> THEN <<>> ELSE SplitLines(Tail(file))

(***************************************************************************)
(* The two file formats of the corpus.  A row content is a record of the   *)
(* logical fields; TsvLineA and TsvLineB write it out in the columns of a  *)
(* combined.tsv of the "AFI" family and of the other family (the column    *)
(* headers the two branches of lines 138-181 are written for).             *)
(***************************************************************************)
Filler == <<"#">>

TsvLineA(c) ==
    << c.id, c.channel, c.begin, c.end, c.text, c.duration, c.recording_id,
       Filler, Filler, Filler, Filler, Filler,
       c.left.role, c.right.role, Filler,
       c.left.id, c.left.gender, c.left.age, c.left.country, c.left.accent,
       c.right.id, c.right.gender, c.right.age, c.right.country,
       c.right.accent >>

TsvLineB(c) ==
    << c.id, c.channel, Filler, c.begin, c.end, c.duration, c.text,
       c.recording_id,
       Filler, Filler, Filler, Filler, Filler,
       c.left.id, c.left.native, c.left.role, c.left.age, c.left.gender,
       c.left.country, c.left.accent,
       c.right.id, c.right.native, c.right.role, c.right.age,
       c.right.gender, c.right.country, c.right.accent >>

\* The line of a row content in the combined.tsv of `subset`.
TsvLine(subset, c) ==
    IF startswith(subset, AFI) THEN TsvLineA(c) ELSE TsvLineB(c)

\* The first line of a combined.tsv: the names of its columns.
HeaderLine == [n \in 1..27 |-> <<"c", "o", "l">>]
Header == <<HeaderLine>>

\* Two digits, and H:M:S strings with the seconds given in hundredths.
TwoDigits(n) == <<Digits[(n \div 10) + 1], Digits[(n % 10) + 1]>>

TimeStr(h, m, cs) ==
    TwoDigits(h) \o <<":">> \o TwoDigits(m) \o <<":">>
    \o TwoDigits(cs \div 100)
    \o (IF cs % 100 = 0 THEN <<>> ELSE <<".">> \o TwoDigits(cs % 100))

\* (hours, minutes, hundredths of a second) of the enumerated time strings.
TimeParts == {<<0, 0, 100>>, <<0, 0, 725>>, <<1, 2, 350>>, <<2, 10, 725>>}

\* "01:02:03.5", with one fractional digit, and a string that is no time.
TimeOneDigit == <<"0", "1", ":", "0", "2", ":", "0", "3", ".", "5">>
TimeMalformed == <<"7", ".", "2", "5">>

TimeStrings ==
    {TimeStr(t[1], t[2], t[3]) : t \in TimeParts}
    \cup {TimeOneDigit, TimeMalformed}

ChannelStrings == {<<"1">>, <<"2">>, <<"0">>, <<"3">>, <<>>}

LeftSpeaker ==
    [id |-> <<"L", "i">>, gender |-> <<"L", "g">>, age |-> <<"L", "a">>,
     country |-> <<"L", "c">>, accent |-> <<"L", "x">>,
     role |-> <<"L", "r">>, native |-> <<"L", "n">>]

RightSpeaker ==
    [id |-> <<"R", "i">>, gender |-> <<"R", "g">>, age |-> <<"R", "a">>,
     country |-> <<"R", "c">>, accent |-> <<"R", "x">>,
     role |-> <<"R", "r">>, native |-> <<"R", "n">>]

\* The row contents given to the decoder on its own.
DecodeContents ==
    {[id |-> <<"t", "1">>, channel |-> ch, begin |-> b, end |-> <<"e">>,
      text |-> <<"O", "k", ".">>, duration |-> d,
      recording_id |-> <<"w", "1">>,
      left |-> LeftSpeaker, right |-> RightSpeaker] :
        ch \in ChannelStrings, b \in TimeStrings, d \in TimeStrings}

\* The identifiers the layout is resolved for on its own.
ProbeSubsets == DEV_SUBSETS \o <<OTHER_SUBSET>>

\* The texts given to normalize on its own: the example of the
\* documentation and every short text over a small alphabet.
ExampleText ==
    <<"H", "e", "l", "l", "o", ",", " ", "W", "o", "r", "l", "d", "!", " ",
      "U+2014", " ", "i", "t", "'", "s", " ", "f", "i", "n", "e", ".">>

TextAlphabet == {"H", "e", ",", "'", "-", " ", "U+2014"}

Texts == SeqsUpTo(TextAlphabet, MaxTextLen) \cup {ExampleText}

(***************************************************************************)
(* The inputs of a run: what the directory of a subset holds.              *)
(***************************************************************************)
\* The audio file names "w5.wav", "w10.wav", "w15.wav", ...: their order as
\* strings is not the order of their numbers.
Decimal(n) ==
    IF n < 10 THEN <<Digits[n + 1]>>
    ELSE <<Digits[(n \div 10) + 1], Digits[(n % 10) + 1]>>

WavStem(n) == <<"w">> \o Decimal(5 * n)
WavName(n) == WavStem(n) \o <<".", "w", "a", "v">>

\* The orders in which glob may give the n files of a directory.
Listings(n) ==
    {l \in [1..n -> {WavName(m) : m \in 1..n}] :
        \A x, y \in 1..n : x # y => l[x] # l[y]}

RunContent(id, ch, rec, b, d) ==
    [id |-> id, channel |-> ch, begin |-> TimeStr(b[1], b[2], b[3]),
     end |-> <<"e">>, text |-> <<"O", "k", ".">>,
     duration |-> TimeStr(d[1], d[2], d[3]), recording_id |-> rec,
     left |-> LeftSpeaker, right |-> RightSpeaker]

\* A row of channel 1 in the first file and one of channel 2 in the second.
GoodRow1 == RunContent(<<"t", "1">>, <<"1">>, WavStem(1), <<0, 0, 100>>, <<0, 0, 200>>)
GoodRow2 == RunContent(<<"t", "2">>, <<"2">>, WavStem(2), <<0, 0, 300>>, <<0, 0, 200>>)
\* A row whose channel field is "3".
BadChannelRow == RunContent(<<"t", "3">>, <<"3">>, WavStem(1), <<0, 0, 100>>, <<0, 0, 200>>)
\* A row of the first file that begins after the end of the recording.
LateRow == RunContent(<<"t", "4">>, <<"1">>, WavStem(1), <<0, 1, 0>>, <<0, 0, 200>>)

RunContents == {GoodRow1, GoodRow2, BadChannelRow, LateRow}

RECURSIVE TsvLines(_, _)
TsvLines(subset, rows) ==
    IF rows = <<>> THEN <<>>
    ELSE <<TsvLine(subset, Head(rows))>> \o TsvLines(subset, Tail(rows))

\* The rows of a combined.tsv: up to MaxRows row contents, none twice.
Transcripts ==
    {rows \in SeqsUpTo(RunContents, MaxRows) :
        \A x, y \in 1..Len(rows) : x # y => rows[x] # rows[y]}

\* No directory has been read yet.
NothingRead == [files |-> {}, rows |-> <<>>]

\* The combined.tsv of `subset` with the rows `rows`: a header and a line
\* per row, in the format of the subset's family.
TsvFile(subset, rows) == Header \o TsvLines(subset, rows)

Pending == Raise("pending")

(***************************************************************************)
(* State.                                                                  *)
(***************************************************************************)
VARIABLES
    pc,                    \* position in prepare_uniphore_dev
    output_dir,            \* TRUE when an output directory is given
    normalize_text,
    i,                     \* position of `subset` in DEV_SUBSETS
    corpus,                \* what the directory of the current subset held
    locals,                \* the TSV_* local names bound so far
    recording_set,         \* the Recordings of the current subset, in order
    supervision_segments,  \* the segments of the current subset, in order
    validated,             \* subsets whose validation has succeeded
    written,               \* the manifest files written, as <<kind, i>>
    manifests,             \* the dict filled per subset
    error,                 \* the exception that ended the run, if any
    d_content, d_normalize, d_locals, d_decoded,   \* the decoder on its own
    n_text, n_once, n_twice                        \* normalize on its own

runvars ==
    <<pc, output_dir, normalize_text, i, corpus, locals, recording_set,
      supervision_segments, validated, written, manifests, error>>
decvars == <<d_content, d_normalize, d_locals, d_decoded>>
normvars == <<n_text, n_once, n_twice>>
vars == <<runvars, decvars, normvars>>

NoError == "none"

RunIdle ==
    /\ pc = "idle"
    /\ output_dir = FALSE
    /\ normalize_text = FALSE
    /\ i = 1
    /\ corpus = NothingRead
    /\ locals = NoLocals
    /\ recording_set = <<>>
    /\ supervision_segments = <<>>
    /\ validated = {}
    /\ written = {}
    /\ manifests = NoLocals
    /\ error = NoError

DecodeIdle ==
    /\ d_content = <<>>
    /\ d_normalize = FALSE
    /\ d_locals = <<>>
    /\ d_decoded = <<>>

NormalizeIdle ==
    /\ n_text = <<>>
    /\ n_once = Pending
    /\ n_twice = Pending

(***************************************************************************)
(* The layout resolution and the decoder on their own: one row content,    *)
(* written out in the format of each subset and decoded under the names    *)
(* that subset's branch binds.                                             *)
(***************************************************************************)
InitDecode ==
    /\ RunIdle /\ NormalizeIdle
    /\ d_content \in DecodeContents
    /\ d_normalize \in BOOLEAN
    /\ d_locals = [n \in 1..Len(ProbeSubsets) |-> NoLocals]
    /\ d_decoded = [n \in 1..Len(ProbeSubsets) |-> Pending]

ResolveLayout(n) ==
    /\ d_locals[n] = NoLocals
    /\ d_locals' = [d_locals EXCEPT ![n] = AssignLayout(NoLocals, ProbeSubsets[n])]
    /\ UNCHANGED <<d_content, d_normalize, d_decoded, runvars, normvars>>

DecodeRow(n) ==
    /\ d_locals[n] # NoLocals
    /\ d_decoded[n] = Pending
    /\ d_decoded' =
          [d_decoded EXCEPT ![n] =
              DecodeLine(parse_tsv_file(Header \o <<TsvLine(ProbeSubsets[n], d_content)>>)[1],
                         d_locals[n], d_normalize)]
    /\ UNCHANGED <<d_content, d_normalize, d_locals, runvars, normvars>>

NextDecode ==
    \/ \E n \in 1..Len(ProbeSubsets) : ResolveLayout(n)
    \/ \E n \in 1..Len(ProbeSubsets) : DecodeRow(n)

SpecDecode == InitDecode /\ [][NextDecode]_vars

(***************************************************************************)
(* normalize on its own, applied once and then again to its own result.    *)
(***************************************************************************)
InitNormalize ==
    /\ RunIdle /\ DecodeIdle
    /\ n_text \in Texts
    /\ n_once = Pending
    /\ n_twice = Pending

NormalizeOnce ==
    /\ n_once = Pending
    /\ n_once' = Ok(normalize(n_text))
    /\ UNCHANGED <<n_text, n_twice, runvars, decvars>>

NormalizeTwice ==
    /\ n_once # Pending
    /\ n_twice = Pending
    /\ n_twice' = Ok(normalize(n_once.val))
    /\ UNCHANGED <<n_text, n_once, runvars, decvars>>

NextNormalize == NormalizeOnce \/ NormalizeTwice

SpecNormalize == InitNormalize /\ [][NextNormalize]_vars

(***************************************************************************)
(* Collaborators of the recipe that live in the rest of the library.       *)
(***************************************************************************)
\* Recording.from_file: the id is the file name without its suffix; every
\* file of the model is a stereo recording of 30 seconds.
RecordingFromFile(path) ==
    [id |-> SubSeq(path, 1, Len(path) - 4), path |-> path,
     duration |-> 3000, num_channels |-> 2]

RECURSIVE RecordingsFromFiles(_)
\* RecordingSet.from_recordings(Recording.from_file(p) for p in audio_files).
RecordingsFromFiles(paths) ==
    IF paths = <<>> THEN <<>>
    ELSE <<RecordingFromFile(Head(paths))>> \o RecordingsFromFiles(Tail(paths))

\* validate_recordings_and_supervisions: every supervision refers to one
\* recording of the set, lies within its duration and its channels, has a
\* positive duration, and no two supervisions share an id.
ValidationOk(recordings, supervisions) ==
    /\ \A x, y \in 1..Len(supervisions) :
           x # y => supervisions[x].id # supervisions[y].id
    /\ \A x \in 1..Len(supervisions) :
           LET seg == supervisions[x] IN
           /\ seg.start >= 0
           /\ seg.duration > 0
           /\ \E y \in 1..Len(recordings) :
                 /\ recordings[y].id = seg.recording_id
                 /\ seg.channel \in 0..(recordings[y].num_channels - 1)
                 /\ seg.start + seg.duration <= recordings[y].duration

(***************************************************************************)
(* list.sort() on the paths (line 127).                                    *)
(***************************************************************************)
\* The characters of the file names, in the order of their code points.
CharOrder == <<"-", ".">> \o Digits \o LowerCase

RECURSIVE LexLess(_, _)
\* a < b as strings.
LexLess(a, b) ==
    IF b = <<>> THEN FALSE
    ELSE IF a = <<>> THEN TRUE
    ELSE IF a[1] = b[1] THEN LexLess(Tail(a), Tail(b))
    ELSE IndexOf(CharOrder, a[1], 1) < IndexOf(CharOrder, b[1], 1)

RECURSIVE Insert(_, _)
Insert(x, sorted) ==
    IF sorted = <<>> THEN <<x>>
    ELSE IF LexLess(sorted[1], x) THEN <<sorted[1]>> \o Insert(x, Tail(sorted))
    ELSE <<x>> \o sorted

RECURSIVE sort(_)
sort(paths) ==
    IF paths = <<>> THEN <<>> ELSE Insert(paths[1], sort(Tail(paths)))

(***************************************************************************)
(* prepare_uniphore_dev (lines 88-241): one run over DEV_SUBSETS.          *)
(***************************************************************************)
Subsets == 1..Len(DEV_SUBSETS)

InitRun ==
    /\ DecodeIdle /\ NormalizeIdle
    /\ pc = "loop"
    /\ output_dir \in BOOLEAN
    /\ normalize_text \in BOOLEAN
    /\ i = 1
    /\ corpus = NothingRead
    /\ locals = NoLocals
    /\ recording_set = <<>>
    /\ supervision_segments = <<>>
    /\ validated = {}
    /\ written = {}
    /\ manifests = NoLocals
    /\ error = NoError

\* The index of the first line that does not decode; 0 when all do.
FirstFailure(results) ==
    IF \A n \in 1..Len(results) : results[n].ok THEN 0
    ELSE CHOOSE n \in 1..Len(results) :
            /\ ~results[n].ok
            /\ \A m \in 1..(n - 1) : results[m].ok

\* A bug: the supervisions are written as soon as they are collected, before
\* the pair is validated.
WrittenBeforeValidation_mut(written_so_far, subset) ==
    written_so_far \cup {<<"supervisions", subset>>}

\* The files on disk when validate_recordings_and_supervisions is called
\* for a subset (line 229): the calls of to_file come after it.
WrittenBeforeValidation(written_so_far, subset) == written_so_far

\* A bug: the exception is caught and the loop goes on with the next subset.
AfterException_mut(subset) == [pc |-> "loop", i |-> subset + 1]

\* Where the function is after an exception in the body of the loop: no
\* try statement encloses it, so the exception leaves the function.
AfterException(subset) == [pc |-> "raised", i |-> subset]

\* To the end of the body of the loop for a subset (lines 236-239).
StoreManifests ==
    /\ manifests' =
          (i :> [supervisions |-> supervision_segments',
                 recordings |-> recording_set']) @@ manifests
    /\ i' = i + 1
    /\ pc' = "loop"

RECURSIVE DecodeLines(_, _, _)
\* The result of the loop body for each line of the transcript.
DecodeLines(lines, bound, normalizing) ==
    IF lines = <<>> THEN <<>>
    ELSE <<DecodeLine(Head(lines), bound, normalizing)>>
         \o DecodeLines(Tail(lines), bound, normalizing)

RECURSIVE Values(_)
\* The segments appended to supervision_segments (line 226).
Values(results) ==
    IF results = <<>> THEN <<>>
    ELSE <<Head(results).val>> \o Values(Tail(results))

\* Lines 125-130 for the subset at position i: the audio files are listed
\* (in any order), sorted and probed.
ListAudio ==
    /\ pc = "loop"
    /\ i \in Subsets
    /\ \E n \in 0..MaxFiles : \E listing \in Listings(n) :
        LET audio_files == sort(listing) IN
        /\ corpus' = [files |-> Range(listing), rows |-> <<>>]
        /\ recording_set' = RecordingsFromFiles(audio_files)
    /\ pc' = "transcript"
    /\ UNCHANGED <<output_dir, normalize_text, i, locals,
                   supervision_segments, validated, written, manifests,
                   error, decvars, normvars>>

\* Lines 132-229 for one subset, from the rows of its combined.tsv: the
\* transcript is parsed, the column names are bound, every line is decoded
\* up to the first that raises, and the pair is validated.  `error` is the
\* exception raised, if any.
Assemble(subset, recordings, rows, bound_before, normalizing) ==
    LET transcript == parse_tsv_file(TsvFile(subset, rows))
        bound == AssignLayout(bound_before, subset)
        results == DecodeLines(transcript, bound, normalizing)
        failed == FirstFailure(results)
        segments ==
            Values(SubSeq(results, 1,
                          IF failed = 0 THEN Len(results) ELSE failed - 1))
    IN  [locals |-> bound,
         segments |-> segments,
         error |-> IF failed # 0 THEN results[failed].err
                   ELSE IF ~ValidationOk(recordings, segments)
                   THEN "ValidationError"
                   ELSE NoError]

\* Lines 132-230 for the subset at position i.
Transcribe ==
    /\ pc = "transcript"
    /\ \E rows \in Transcripts :
       \E a \in {Assemble(DEV_SUBSETS[i], recording_set, rows, locals,
                          normalize_text)} :
            /\ corpus' = [corpus EXCEPT !.rows = rows]
            /\ locals' = a.locals
            /\ supervision_segments' = a.segments
            /\ error' = a.error
            /\ written' = WrittenBeforeValidation(written, i)
            /\ UNCHANGED recording_set
            /\ IF a.error # NoError
               THEN /\ pc' = AfterException(i).pc
                    /\ i' = AfterException(i).i
                    /\ UNCHANGED <<validated, manifests>>
               ELSE /\ validated' = validated \cup {i}
                    /\ IF output_dir
                       THEN /\ pc' = "write_supervisions"
                            /\ UNCHANGED <<i, manifests>>
                       ELSE StoreManifests
    /\ UNCHANGED <<output_dir, normalize_text, decvars, normvars>>

\* supervision_set.to_file (lines 231-233).
WriteSupervisions ==
    /\ pc = "write_supervisions"
    /\ written' = written \cup {<<"supervisions", i>>}
    /\ pc' = "write_recordings"
    /\ UNCHANGED <<output_dir, normalize_text, i, corpus, locals,
                   recording_set, supervision_segments, validated,
                   manifests, error, decvars, normvars>>

\* recording_set.to_file (line 234), and the end of the body of the loop.
WriteRecordings ==
    /\ pc = "write_recordings"
    /\ written' = written \cup {<<"recordings", i>>}
    /\ UNCHANGED <<output_dir, normalize_text, corpus, locals,
                   recording_set, supervision_segments, validated,
                   error, decvars, normvars>>
    /\ StoreManifests

\* return manifests (line 241).
Return ==
    /\ pc = "loop"
    /\ i \notin Subsets
    /\ pc' = "returned"
    /\ UNCHANGED <<output_dir, normalize_text, i, corpus, locals,
                   recording_set, supervision_segments, validated, written,
                   manifests, error, decvars, normvars>>

(***************************************************************************)
(* Properties of the decoder and of the layouts (under SpecDecode).        *)
(***************************************************************************)
Probes == 1..Len(ProbeSubsets)
NonAFI == {n \in Probes : ~startswith(ProbeSubsets[n], AFI)}
OtherProbe == Len(ProbeSubsets)

WellFormedTimes ==
    d_content.begin # TimeMalformed /\ d_content.duration # TimeMalformed

\* The speaker attributes a supervision carries, side by side with a block.
CarriesBlock(seg, blk) ==
    /\ seg.speaker = blk.id
    /\ seg.gender = blk.gender
    /\ seg.custom = [accent |-> blk.accent, role |-> blk.role,
                     living_country |-> blk.country, age |-> blk.age]

\* C3: a channel field "1" gives stored channel 0 and the attributes of the
\* left block, "2" gives stored channel 1 and the attributes of the right
\* block, and any other channel field raises (the assertion) and gives no
\* supervision; a row with channel "1" or "2" and well-formed times decodes.
C3_ChannelSelectsBlock ==
    \A n \in Probes :
        d_decoded[n] # Pending =>
            LET r == d_decoded[n]
                ch == d_content.channel
            IN  /\ (ch = <<"1">> /\ r.ok) =>
                       r.val.channel = 0 /\ CarriesBlock(r.val, d_content.left)
                /\ (ch = <<"2">> /\ r.ok) =>
                       r.val.channel = 1 /\ CarriesBlock(r.val, d_content.right)
                /\ ch \notin {<<"1">>, <<"2">>} =>
                       ~r.ok /\ r.err = "AssertionError"
                /\ (ch \in {<<"1">>, <<"2">>} /\ WellFormedTimes) => r.ok

\* A row of channel "2" has been decoded into a supervision of channel 1.
C3_Witness ==
    \E n \in Probes :
        /\ d_content.channel = <<"2">>
        /\ d_decoded[n].ok
        /\ d_decoded[n].val.channel = 1

ShiftedFields ==
    {"TSV_BEGIN_TIME", "TSV_END_TIME", "TSV_TRANSCRIPT", "TSV_DURATION",
     "TSV_RECORDING_ID"}

BothResolved(n) == d_locals[1] # NoLocals /\ d_locals[n] # NoLocals

\* C5 as stated: begin time, end time, transcript, duration and recording
\* id are each at the "AFI" index plus one for a subset that is not "AFI".
C5_Original ==
    \A n \in NonAFI :
        BothResolved(n) =>
            \A f \in ShiftedFields : d_locals[n][f] = d_locals[1][f] + 1

\* C5, amended: begin time, end time and recording id are at the "AFI"
\* index plus one; the transcript is at the "AFI" index plus two (column 6)
\* and the duration at the "AFI" index itself (column 5).
C5_ShiftPerField ==
    \A n \in NonAFI :
        BothResolved(n) =>
            /\ \A f \in {"TSV_BEGIN_TIME", "TSV_END_TIME", "TSV_RECORDING_ID"} :
                   d_locals[n][f] = d_locals[1][f] + 1
            /\ d_locals[n].TSV_TRANSCRIPT = d_locals[1].TSV_TRANSCRIPT + 2
            /\ d_locals[n].TSV_DURATION = d_locals[1].TSV_DURATION

\* The layouts of the "AFI" subset and of every other subset are resolved.
C5_Witness == \A n \in NonAFI : BothResolved(n)

\* C6: the same row content, written in the "AFI" format and decoded for the
\* "AFI" subset, and written in the other format and decoded for a subset
\* that is not "AFI", gives the same result, field for field.
C6_SchemaIndependence ==
    \A n \in NonAFI :
        (d_decoded[1] # Pending /\ d_decoded[n] # Pending) =>
            d_decoded[1] = d_decoded[n]

\* Both decodings gave a supervision.
C6_Witness ==
    \E n \in NonAFI : d_decoded[1].ok /\ d_decoded[n].ok

\* C7: the start of a decoded supervision is H*3600 + M*60 + S of the begin
\* field and its duration is S alone of the duration field (in hundredths).
C7_TimeAndDuration ==
    \A n \in Probes :
        d_decoded[n].ok =>
            /\ \A t \in TimeParts :
                /\ d_content.begin = TimeStr(t[1], t[2], t[3]) =>
                       d_decoded[n].val.start
                           = 100 * (t[1] * 3600 + t[2] * 60) + t[3]
                /\ d_content.duration = TimeStr(t[1], t[2], t[3]) =>
                       d_decoded[n].val.duration = t[3]
            /\ d_content.begin = TimeOneDigit =>
                   d_decoded[n].val.start = 372350
            /\ d_content.duration = TimeOneDigit =>
                   d_decoded[n].val.duration = 350

\* A duration field "02:10:07.25" has been decoded into 7.25 seconds, and a
\* begin field "01:02:03.50" into 3723.5 seconds.
C7_Witness ==
    \E n \in Probes :
        /\ d_content.duration = TimeStr(2, 10, 725)
        /\ d_content.begin = TimeStr(1, 2, 350)
        /\ d_decoded[n].ok
        /\ d_decoded[n].val.duration = 725
        /\ d_decoded[n].val.start = 372350

(***************************************************************************)
(* Properties of normalize (under SpecNormalize).                          *)
(***************************************************************************)
\* "hello world  its fine", the dash removed.
ExampleWithoutDash ==
    <<"h", "e", "l", "l", "o", " ", "w", "o", "r", "l", "d", " ", " ",
      "i", "t", "s", " ", "f", "i", "n", "e">>

\* "hello world (em dash) its fine".
ExampleWithDash ==
    <<"h", "e", "l", "l", "o", " ", "w", "o", "r", "l", "d", " ", "U+2014",
      " ", "i", "t", "s", " ", "f", "i", "n", "e">>

FilesOf(s) == {<<"supervisions", s>>, <<"recordings", s>>}

\* The subset has been decoded, validated and, when asked for, written.
Processed(s) ==
    /\ s \in validated
    /\ output_dir => FilesOf(s) \subseteq written

Ended == pc \in {"returned", "raised"}

\* The combined.tsv of some subset has been read and handled.
AfterTranscribe ==
    \/ pc \in {"raised", "write_supervisions", "write_recordings"}
    \/ pc \in {"loop", "returned"} /\ i > 1

\* The subset the variables of the loop body were last set for.
Current == IF pc \in {"loop", "returned"} THEN i - 1 ELSE i

\* C1 as stated: when the run has ended, every subset other than the one
\* whose processing failed has been decoded, validated and written.
C1_Original ==
    Ended =>
        \A s \in Subsets : (pc = "raised" /\ s = i) \/ Processed(s)

\* C1, amended: a failure while processing one subset ends the whole run:
\* the subsets before the failing one have been decoded, validated and (when
\* an output directory is given) written, and no subset from the failing one
\* on is validated, written or entered in the manifests.
C1_FailureEndsRun ==
    /\ error # NoError => pc = "raised"
    /\ pc = "raised" =>
          \A s \in Subsets :
              /\ s < i => Processed(s)
              /\ s >= i =>
                    /\ s \notin validated
                    /\ FilesOf(s) \cap written = {}
                    /\ s \notin DOMAIN manifests

\* The second subset has failed after the first one was written.
C1_Witness ==
    /\ pc = "raised"
    /\ i = 2
    /\ output_dir
    /\ FilesOf(1) \subseteq written
    /\ FilesOf(2) \cap written = {}

\* C2: a file of a subset is written only after that subset's validation
\* has succeeded, and when decoding a row or the validation of a subset has
\* failed, neither of the two files of that subset is written.
C2_NothingPersistedOnFailure ==
    /\ \A s \in Subsets : FilesOf(s) \cap written # {} => s \in validated
    /\ pc = "raised" => FilesOf(i) \cap written = {}
    /\ pc \in {"write_supervisions", "write_recordings"} =>
          /\ i \in validated
          /\ Len(supervision_segments) = Len(corpus.rows)
          /\ ValidationOk(recording_set, supervision_segments)

\* The validation of the second subset has failed in a run that writes, and
\* the files of the first subset are on disk.
C2_Witness ==
    /\ pc = "raised"
    /\ error = "ValidationError"
    /\ i = 2
    /\ output_dir
    /\ written = FilesOf(1)

RowsAllDecode ==
    \A x \in 1..Len(corpus.rows) :
        corpus.rows[x].channel \in {<<"1">>, <<"2">>}

Stem(path) == SubSeq(path, 1, Len(path) - 4)

RowsReferenceFiles ==
    \A x \in 1..Len(corpus.rows) :
        \E f \in corpus.files : Stem(f) = corpus.rows[x].recording_id

\* One recording per file, in ascending order of the paths.
RecordingsAreTheFiles ==
    /\ Len(recording_set) = Cardinality(corpus.files)
    /\ {recording_set[x].path : x \in 1..Len(recording_set)} = corpus.files
    /\ \A x \in 1..Len(recording_set) :
           recording_set[x].id = Stem(recording_set[x].path)
    /\ \A x, y \in 1..Len(recording_set) :
           x < y => LexLess(recording_set[x].path, recording_set[y].path)

\* One supervision per row of the file after the header, in file order.
SupervisionsAreTheRows ==
    /\ Len(supervision_segments) = Len(corpus.rows)
    /\ \A x \in 1..Len(corpus.rows) :
           /\ supervision_segments[x].id = corpus.rows[x].id
           /\ supervision_segments[x].recording_id
                 = corpus.rows[x].recording_id

AssemblySucceeded ==
    /\ error = NoError
    /\ Current \in validated
    /\ RecordingsAreTheFiles
    /\ SupervisionsAreTheRows

\* C8 as stated: rows that all decode and reference only the audio files
\* of the subset give N recordings and M supervisions that validate.
C8_Original ==
    (AfterTranscribe /\ RowsAllDecode /\ RowsReferenceFiles) =>
        AssemblySucceeded

\* Every row lies within the recording it references: its start plus its
\* duration within the recording's duration, a positive duration, its
\* channel one of the recording's, and its id that of no other row.
RowsWithinRecordings ==
    /\ \A x, y \in 1..Len(corpus.rows) :
           x # y => corpus.rows[x].id # corpus.rows[y].id
    /\ \A x \in 1..Len(corpus.rows) :
           LET row == corpus.rows[x] IN
           \A y \in 1..Len(recording_set) :
               recording_set[y].id = row.recording_id =>
                   /\ convert_duration(row.duration).val > 0
                   /\ convert_time(row.begin).val
                        + convert_duration(row.duration).val
                          <= recording_set[y].duration
                   /\ ParseInt(row.channel).val <= recording_set[y].num_channels

\* C8, amended: rows that all decode, reference only the N audio files of
\* the subset, have distinct ids and each lie within the duration and the
\* channels of the recording they reference give N recordings (one per
\* file, in lexicographic path order) and M supervisions (one per row after
\* the header, in file order), and the validation succeeds.
C8_SizesAndOrder ==
    (/\ AfterTranscribe
     /\ RowsAllDecode
     /\ RowsReferenceFiles
     /\ RowsWithinRecordings) => AssemblySucceeded

\* Two files listed and two rows read: the recordings are in the order of
\* the paths ("w10.wav" before "w5.wav") and the supervisions in file order.
C8_Witness ==
    /\ AfterTranscribe
    /\ error = NoError
    /\ corpus.rows = <<GoodRow2, GoodRow1>>
    /\ Len(recording_set) = 2
    /\ recording_set[1].id = <<"w", "1", "0">>
    /\ recording_set[2].id = <<"w", "5">>
    /\ Len(supervision_segments) = 2
    /\ supervision_segments[1].id = GoodRow2.id
    /\ supervision_segments[2].id = GoodRow1.id

\* The names the body of the loop over the lines reads, and the end time.
UsedNames ==
    {"TSV_BEGIN_TIME", "TSV_END_TIME", "TSV_DURATION", "TSV_TRANSCRIPT",
     "TSV_RECORDING_ID",
     "TSV_LEFTCHANNELSPEAKERID", "TSV_LEFTCHANNELSPEAKERGENDER",
     "TSV_LEFTCHANNELSPEAKERAGE", "TSV_LEFTCHANNELSPEAKERLIVINGCOUNTRY",
     "TSV_LEFTCHANNELSPEAKERACCENT", "TSV_LEFTCHANNELROLE",
     "TSV_RIGHTCHANNELSPEAKERID", "TSV_RIGHTCHANNELSPEAKERGENDER",
     "TSV_RIGHTCHANNELSPEAKERAGE", "TSV_RIGHTCHANNELSPEAKERLIVINGCOUNTRY",
     "TSV_RIGHTCHANNELSPEAKERACCENT", "TSV_RIGHTCHANNELROLE"}

OwnLayout(s) ==
    IF startswith(DEV_SUBSETS[s], AFI) THEN LayoutA ELSE LayoutB

\* C10: every column index in effect for the rows of a subset is the one of
\* that subset's own layout family, whatever was bound for the subsets
\* before it, and its rows decode as they would with no subset before it.
C10_LayoutOfOwnFamily ==
    AfterTranscribe =>
        /\ \A name \in UsedNames : locals[name] = OwnLayout(Current)[name]
        /\ supervision_segments
              = Assemble(DEV_SUBSETS[Current], recording_set, corpus.rows,
                         NoLocals, normalize_text).segments

\* A row of the second subset has been decoded after the first subset, of
\* the other family, was processed.
C10_Witness ==
    /\ AfterTranscribe
    /\ Current = 2
    /\ 1 \in validated
    /\ Len(supervision_segments) >= 1

Init == InitRun

Next ==
    ListAudio \/ Transcribe \/ WriteSupervisions \/ WriteRecordings \/ Return

Spec == Init /\ [][Next]_vars
====
